---- MODULE Spec2Model ----
(***************************************************************************)
(* gourmAgent: the tool-use loop of agent.run (agent.py), the HTTP /run    *)
(* handler that wraps it (server.py), and the preference tools it          *)
(* dispatches to (tools/prefs.py over memory/store.py).                    *)
(***************************************************************************)
EXTENDS Integers, Sequences, FiniteSets, TLC

VARIABLES
    db,             \* the preference store: the users and preferences tables
    saves,          \* history: the arguments of every save_preference call that returned, in order
    api_key,        \* the process environment: GOOGLE_PLACES_API_KEY
    places_client,  \* places._client, the cached provider client
    pc,             \* where run() is: "await", "exec", "done", "failed"
    messages,       \* run(): the transcript
    tool_calls_log, \* run(): the tool-call log
    tool_uses,      \* run(): the tool-request blocks of the latest response
    tu_index,       \* run(): position of the for loop over tool_uses
    tool_results,   \* run(): the tool-result blocks built so far in this cycle
    result,         \* what run() returned
    http,           \* the status of the /run response
    issued,         \* the provider: number of tool-request identifiers assigned
    nCalls,         \* history: number of client.messages.create calls
    responses,      \* history: the responses those calls returned, in order
    dispatched,     \* history: every _dispatch_tool call and how it ended, in order
    search,         \* history: the latest direct search_restaurants call
    sessions,       \* per thread: the store session of the save_preference call it is in
    agent_client,   \* agent._client, the cached provider client
    constructed,    \* history: per module, how many times the client constructor ran
    getters,        \* per thread: the _get_client call it is in
    runs            \* per concurrent invocation: the locals of run()

prefVars == <<db, saves>>
runVars == <<api_key, places_client, pc, messages, tool_calls_log, tool_uses, tu_index,
             tool_results, result, http, issued, nCalls, responses, dispatched>>
\* the state of threads other than the one run() is followed in
threadVars == <<search, sessions, agent_client, constructed, getters, runs>>
vars == <<db, saves, api_key, places_client, pc, messages, tool_calls_log, tool_uses, tu_index,
          tool_results, result, http, issued, nCalls, responses, dispatched,
          search, sessions, agent_client, constructed, getters, runs>>

-----------------------------------------------------------------------------
(* Bounds of the model *)

\* direct save_preference calls explored per behaviour
MaxSaves == 2
\* client.messages.create calls explored per run()
MaxCalls == 3
\* content blocks the provider produces in one explored run()
MaxBlocks == 3
\* save_preference calls explored on the threads together
MaxSessions == 3
\* _get_client calls explored per thread
MaxGets == 2
\* places in one explored answer of the places provider
MaxResults == 11
\* client.messages.create calls explored per concurrent invocation
MaxRunCalls == 2

-----------------------------------------------------------------------------
(* Values *)

\* An optional value (a parameter or a nullable column): None, or one value
None == <<>>
Some(v) == <<v>>
Val(o) == o[1]

Users == {"u1", "u2"}
\* list arguments a caller passes; the last one repeats an entry
ListInputs == {<<"Thai">>, <<"Italian", "Thai", "Italian">>}
\* price_range values a caller passes, out of the schema's "$", "$$", "$$$", "$$$$"
PriceInputs == {"$$", "$$$"}

ToSet(s) == {s[i] : i \in DOMAIN s}
NoDup(s) == \A i, j \in DOMAIN s : s[i] = s[j] => i = j

-----------------------------------------------------------------------------
(* memory/store.py and tools/prefs.py *)

LIST_FIELDS ==
    {"cuisines_liked", "cuisines_disliked", "dietary_restrictions",
     "liked_place_ids", "disliked_place_ids"}

\* Preference(user_id=user_id): a transient row, no column set but user_id
NewPreference(user_id) ==
    [user_id |-> user_id,
     cuisines_liked |-> None, cuisines_disliked |-> None,
     dietary_restrictions |-> None, price_range |-> None,
     liked_place_ids |-> None, disliked_place_ids |-> None]

\* the column default applied when a row is written: default=list
ColumnDefault(v) == IF v = None THEN Some(<<>>) ELSE v

ApplyDefaults(row) ==
    [user_id |-> row.user_id,
     cuisines_liked |-> ColumnDefault(row.cuisines_liked),
     cuisines_disliked |-> ColumnDefault(row.cuisines_disliked),
     dietary_restrictions |-> ColumnDefault(row.dietary_restrictions),
     price_range |-> row.price_range,
     liked_place_ids |-> ColumnDefault(row.liked_place_ids),
     disliked_place_ids |-> ColumnDefault(row.disliked_place_ids)]

\* session.query(Preference).filter_by(user_id=user_id).first(): the index of
\* the first matching row, 0 when there is none
FirstPref(prefs, user_id) ==
    IF \E i \in DOMAIN prefs : prefs[i].user_id = user_id
    THEN CHOOSE i \in DOMAIN prefs :
            /\ prefs[i].user_id = user_id
            /\ \A j \in DOMAIN prefs : prefs[j].user_id = user_id => i <= j
    ELSE 0

\* `x or []`
OrEmpty(v) == IF v = None THEN <<>> ELSE Val(v)

\* list(s) of a Python set s: its elements once each, in an order the
\* language does not fix
ListsOfSet(S) ==
    {s \in [1..Cardinality(S) -> S] : \A i, j \in 1..Cardinality(S) : s[i] = s[j] => i = j}

\* a buggy merge that appends the new values to the stored list
MergeByAppend(existing, given) == {OrEmpty(existing) \o Val(given)}

\* list(set(existing) | set(given)) with existing = pref.field or []
MergeList(existing, given) == ListsOfSet(ToSet(OrEmpty(existing)) \cup ToSet(Val(given)))

\* save_preference(user_id): every other parameter at its default
NoArgs(user_id) ==
    [user_id |-> user_id,
     cuisines_liked |-> None, cuisines_disliked |-> None,
     dietary_restrictions |-> None, price_range |-> None,
     liked_place_ids |-> None, disliked_place_ids |-> None]

\* an update that clears the list fields it is not given
MergedFieldCleared(existing, given) ==
    IF given # None THEN {Some(l) : l \in MergeList(existing, given)} ELSE {None}

\* `if field is not None: pref.field = merge`: the values the field may hold afterwards
MergedField(existing, given) ==
    IF given # None THEN {Some(l) : l \in MergeList(existing, given)} ELSE {existing}

\* save_preference: the stores it may leave behind after session.commit()
SavePreference(d, a) ==
    LET users == d.users \cup {a.user_id}
        at == FirstPref(d.prefs, a.user_id)
        pref == IF at = 0 THEN NewPreference(a.user_id) ELSE d.prefs[at]
    IN  { [users |-> users,
           prefs |-> IF at = 0 THEN Append(d.prefs, ApplyDefaults(row))
                     ELSE [d.prefs EXCEPT ![at] = ApplyDefaults(row)]] :
          row \in
            { [user_id |-> pref.user_id,
               cuisines_liked |-> cl, cuisines_disliked |-> cd,
               dietary_restrictions |-> dr,
               price_range |-> IF a.price_range # None THEN a.price_range
                               ELSE pref.price_range,
               liked_place_ids |-> lp, disliked_place_ids |-> dp] :
              cl \in MergedField(pref.cuisines_liked, a.cuisines_liked),
              cd \in MergedField(pref.cuisines_disliked, a.cuisines_disliked),
              dr \in MergedField(pref.dietary_restrictions, a.dietary_restrictions),
              lp \in MergedField(pref.liked_place_ids, a.liked_place_ids),
              dp \in MergedField(pref.disliked_place_ids, a.disliked_place_ids) } }

\* what save_preference returns
SaveResult(a) == [status |-> "ok", user_id |-> a.user_id]

\* a lookup that falls back to the first stored record
GetPreferencesAnyRow(d, user_id) ==
    LET at == IF FirstPref(d.prefs, user_id) = 0 /\ d.prefs # <<>> THEN 1
              ELSE FirstPref(d.prefs, user_id)
    IN  IF at = 0
        THEN [user_id |-> user_id,
              cuisines_liked |-> <<>>, cuisines_disliked |-> <<>>,
              dietary_restrictions |-> <<>>, price_range |-> None,
              liked_place_ids |-> <<>>, disliked_place_ids |-> <<>>]
        ELSE [user_id |-> user_id,
              cuisines_liked |-> OrEmpty(d.prefs[at].cuisines_liked),
              cuisines_disliked |-> OrEmpty(d.prefs[at].cuisines_disliked),
              dietary_restrictions |-> OrEmpty(d.prefs[at].dietary_restrictions),
              price_range |-> d.prefs[at].price_range,
              liked_place_ids |-> OrEmpty(d.prefs[at].liked_place_ids),
              disliked_place_ids |-> OrEmpty(d.prefs[at].disliked_place_ids)]

\* get_preferences
GetPreferences(d, user_id) ==
    LET at == FirstPref(d.prefs, user_id)
    IN  IF at = 0
        THEN [user_id |-> user_id,
              cuisines_liked |-> <<>>, cuisines_disliked |-> <<>>,
              dietary_restrictions |-> <<>>, price_range |-> None,
              liked_place_ids |-> <<>>, disliked_place_ids |-> <<>>]
        ELSE [user_id |-> user_id,
              cuisines_liked |-> OrEmpty(d.prefs[at].cuisines_liked),
              cuisines_disliked |-> OrEmpty(d.prefs[at].cuisines_disliked),
              dietary_restrictions |-> OrEmpty(d.prefs[at].dietary_restrictions),
              price_range |-> d.prefs[at].price_range,
              liked_place_ids |-> OrEmpty(d.prefs[at].liked_place_ids),
              disliked_place_ids |-> OrEmpty(d.prefs[at].disliked_place_ids)]

\* init_db(): the tables exist and are empty
EmptyDb == [users |-> {}, prefs |-> <<>>]

-----------------------------------------------------------------------------
(* json.dumps, on the values the tools return *)

Quote(str) == "\"" \o str \o "\""

RECURSIVE JoinWith(_, _)
\* sep.join(strs)
JoinWith(sep, strs) ==
    IF strs = <<>> THEN ""
    ELSE IF Len(strs) = 1 THEN strs[1]
    ELSE strs[1] \o sep \o JoinWith(sep, Tail(strs))

DumpsList(items) == "[" \o JoinWith(", ", items) \o "]"
DumpsStrList(strs) == DumpsList([k \in DOMAIN strs |-> Quote(strs[k])])
DumpsDict(pairs) ==
    "{" \o JoinWith(", ", [k \in DOMAIN pairs |-> Quote(pairs[k][1]) \o ": " \o pairs[k][2]]) \o "}"
DumpsOptStr(o) == IF o = None THEN "null" ELSE Quote(Val(o))

\* json.dumps({"error": str(exc)})
DumpsError(msg) == DumpsDict(<< <<"error", Quote(msg)>> >>)

\* json.dumps of save_preference's result
DumpsStatus(r) ==
    DumpsDict(<< <<"status", Quote(r.status)>>, <<"user_id", Quote(r.user_id)>> >>)

\* json.dumps of get_preferences' result
DumpsPrefs(r) ==
    DumpsDict(<< <<"user_id", Quote(r.user_id)>>,
                 <<"cuisines_liked", DumpsStrList(r.cuisines_liked)>>,
                 <<"cuisines_disliked", DumpsStrList(r.cuisines_disliked)>>,
                 <<"dietary_restrictions", DumpsStrList(r.dietary_restrictions)>>,
                 <<"price_range", DumpsOptStr(r.price_range)>>,
                 <<"liked_place_ids", DumpsStrList(r.liked_place_ids)>>,
                 <<"disliked_place_ids", DumpsStrList(r.disliked_place_ids)>> >>)

\* json.dumps of one record of search_restaurants' result
DumpsPlace(r) ==
    DumpsDict(<< <<"place_id", Quote(r.place_id)>>, <<"name", Quote(r.name)>>,
                 <<"address", Quote(r.address)>>, <<"rating", r.rating>>,
                 <<"price_level", r.price_level>>, <<"types", DumpsStrList(r.types)>>,
                 <<"location", r.location>> >>)

DumpsPlaces(rs) == DumpsList([k \in DOMAIN rs |-> DumpsPlace(rs[k])])

\* json.dumps of get_details' result
DumpsDetails(r) ==
    IF r = None THEN "{}"
    ELSE DumpsDict(<< <<"name", Quote(Val(r).name)>>,
                      <<"formatted_address", Quote(Val(r).formatted_address)>>,
                      <<"rating", Val(r).rating>> >>)

-----------------------------------------------------------------------------
(* tools/places.py *)

\* what the places provider answers; numbers are carried as their JSON text
PLACE_1 ==
    [place_id |-> "ChIJtest1", name |-> "Ramen House",
     formatted_address |-> "123 Main St", rating |-> "4.5", price_level |-> "2",
     types |-> <<"restaurant", "food">>, geometry |-> "{\"lat\": 37.77, \"lng\": -122.41}"]

PLACE_2 ==
    [place_id |-> "ChIJtest2", name |-> "Spicy Noodles",
     formatted_address |-> "456 Market St", rating |-> "4.2", price_level |-> "1",
     types |-> <<"restaurant", "food">>, geometry |-> "{\"lat\": 37.78, \"lng\": -122.42}"]

GeocodeResults == {<<>>, <<"37.77,-122.41">>}
PlacesResults == {<<PLACE_1>>}
\* client.place(...): no "result" key, a result, or an object json cannot encode
PlaceResponses == {"not_found", "found", "object"}

\* a slice that keeps everything
TakeAll(s, n) == s

\* s[:n]
Take(s, n) == SubSeq(s, 1, IF Len(s) < n THEN Len(s) ELSE n)

\* search_restaurants after _get_client(): [] when geocoding finds nothing,
\* else the first 10 provider results with their keys renamed
SearchRestaurants(geocode_result, results) ==
    IF geocode_result = <<>> THEN <<>>
    ELSE [k \in DOMAIN Take(results, 10) |->
            [place_id |-> results[k].place_id, name |-> results[k].name,
             address |-> results[k].formatted_address, rating |-> results[k].rating,
             price_level |-> results[k].price_level, types |-> results[k].types,
             location |-> results[k].geometry]]

\* get_details after _get_client(): result.get("result", {})
GetDetails(place_response) ==
    IF place_response = "not_found" THEN None
    ELSE Some([name |-> PLACE_1.name, formatted_address |-> PLACE_1.formatted_address,
               rating |-> PLACE_1.rating])

\* places._get_client(): the error it raises, or None when it returns the client
PlacesClientError ==
    IF places_client # None THEN None
    ELSE IF api_key = "unset"
         THEN Some([kind |-> "RuntimeError",
                    msg |-> "GOOGLE_PLACES_API_KEY environment variable is not set"])
    ELSE IF api_key = "invalid"
         THEN Some([kind |-> "ValueError", msg |-> "Invalid API key provided."])
    ELSE None

-----------------------------------------------------------------------------
(* agent.py *)

\* the keys of _TOOL_DISPATCH
TOOL_DISPATCH == {"search_restaurants", "get_details", "save_preference", "get_preferences"}

\* the parameters of each registered callable, and those without a default
Params(name) ==
    CASE name = "search_restaurants" -> {"query", "location", "radius"}
      [] name = "get_details" -> {"place_id"}
      [] name = "save_preference" -> LIST_FIELDS \cup {"user_id", "price_range"}
      [] name = "get_preferences" -> {"user_id"}

Required(name) ==
    CASE name = "search_restaurants" -> {"query", "location"}
      [] name = "get_details" -> {"place_id"}
      [] name = "save_preference" -> {"user_id"}
      [] name = "get_preferences" -> {"user_id"}

\* fn(**inputs) binds: every required parameter is passed and no unknown one
Binds(name, inputs) ==
    /\ Required(name) \subseteq DOMAIN inputs
    /\ DOMAIN inputs \subseteq Params(name)

KwArg(inputs, f) == IF f \in DOMAIN inputs THEN Some(inputs[f]) ELSE None

\* save_preference(**inputs): the parameters, absent ones at their default None
BindSave(inputs) ==
    [user_id |-> inputs.user_id,
     cuisines_liked |-> KwArg(inputs, "cuisines_liked"),
     cuisines_disliked |-> KwArg(inputs, "cuisines_disliked"),
     dietary_restrictions |-> KwArg(inputs, "dietary_restrictions"),
     price_range |-> KwArg(inputs, "price_range"),
     liked_place_ids |-> KwArg(inputs, "liked_place_ids"),
     disliked_place_ids |-> KwArg(inputs, "disliked_place_ids")]

\* the arguments of run()
USER_ID == "u1"
MESSAGE == "Find me ramen"
LOCATION == "San Francisco, CA"

\* a seed that holds the message text alone
SeedMessageBare(user_id, message, location) == [role |-> "user", content |-> message]

\* {"role": "user", "content": f"[user_id={user_id}] [location={location}]\n\n{message}"}
SeedMessage(user_id, message, location) ==
    [role |-> "user",
     content |-> "[user_id=" \o user_id \o "] [location=" \o location \o "]\n\n" \o message]

\* a filter that keeps the first tool-request block only
FirstToolUse(content) ==
    LET all == SelectSeq(content, LAMBDA b : b.type = "tool_use")
    IN  IF all = <<>> THEN <<>> ELSE <<all[1]>>

\* [block for block in response.content if block.type == "tool_use"]
ToolUses(content) == SelectSeq(content, LAMBDA b : b.type = "tool_use")

\* [block.text for block in response.content if block.type == "text"]
TextBlocks(content) ==
    LET texts == SelectSeq(content, LAMBDA b : b.type = "text")
    IN  [k \in DOMAIN texts |-> texts[k].text]

\* a stop condition that asks for both
StopOnBoth(response) ==
    response.stop_reason = "end_turn" /\ ToolUses(response.content) = <<>>

\* a stop condition that looks at the stop signal alone
StopOnEndTurn(response) == response.stop_reason = "end_turn"

\* `response.stop_reason == "end_turn" or not tool_uses`
StopCondition(response) ==
    response.stop_reason = "end_turn" \/ ToolUses(response.content) = <<>>

\* the text blocks run together
FinalTextUnseparated(response) == JoinWith("", TextBlocks(response.content))

\* "\n".join(text_blocks)
FinalText(response) == JoinWith("\n", TextBlocks(response.content))

-----------------------------------------------------------------------------
(* The model-inference provider *)

STOP_REASONS == {"end_turn", "tool_use"}

TextShapes == {[type |-> "text", text |-> t] : t \in {"a", "b"}}

ToolShapes ==
    { [type |-> "tool_use", name |-> "search_restaurants",
       input |-> [query |-> "ramen", location |-> LOCATION]],
      [type |-> "tool_use", name |-> "get_details", input |-> [place_id |-> "ChIJtest1"]],
      [type |-> "tool_use", name |-> "get_details", input |-> [id |-> "ChIJtest1"]],
      [type |-> "tool_use", name |-> "save_preference",
       input |-> [user_id |-> USER_ID, cuisines_liked |-> <<"Thai">>]],
      [type |-> "tool_use", name |-> "get_preferences", input |-> [user_id |-> USER_ID]],
      [type |-> "tool_use", name |-> "book_table", input |-> [place_id |-> "ChIJtest1"]] }

BlockShapes == TextShapes \cup ToolShapes

\* the provider assigns each tool-request block the next unused identifier
RECURSIVE WithIds(_, _)
WithIds(shapes, used) ==
    IF shapes = <<>> THEN <<>>
    ELSE IF shapes[1].type = "tool_use"
         THEN <<[type |-> "tool_use", id |-> used + 1, name |-> shapes[1].name,
                 input |-> shapes[1].input]>> \o WithIds(Tail(shapes), used + 1)
    ELSE <<shapes[1]>> \o WithIds(Tail(shapes), used)

RECURSIVE TotalBlocks(_)
TotalBlocks(rs) == IF rs = <<>> THEN 0 ELSE Len(rs[1].content) + TotalBlocks(Tail(rs))

\* the content blocks of the responses received so far
BlocksSoFar == TotalBlocks(responses)

\* the responses the provider may give next
Responses ==
    { [stop_reason |-> sr, content |-> WithIds(shapes, issued)] :
        sr \in STOP_REASONS,
        shapes \in UNION {[1..n -> BlockShapes] : n \in 0..(MaxBlocks - BlocksSoFar)} }

-----------------------------------------------------------------------------
(* run(), and the /run handler around it *)

\* bookkeeping common to every client.messages.create call that returns
Received(response) ==
    /\ nCalls' = nCalls + 1
    /\ responses' = Append(responses, response)
    /\ issued' = issued + Len(ToolUses(response.content))
    /\ tool_uses' = ToolUses(response.content)

\* a loop that calls the provider again after a failure
InferenceRetried ==
    /\ pc = "await"
    /\ nCalls < MaxCalls
    /\ nCalls' = nCalls + 1
    /\ UNCHANGED <<threadVars, db, saves, api_key, places_client, pc, messages, tool_calls_log, tool_uses,
                   tu_index, tool_results, result, http, issued, responses, dispatched>>

\* a failure that takes the run's writes back out of the store
InferenceFailsRollingBack ==
    /\ pc = "await"
    /\ nCalls < MaxCalls
    /\ nCalls' = nCalls + 1
    /\ pc' = "failed"
    /\ http' = "500"
    /\ db' = EmptyDb
    /\ UNCHANGED <<threadVars, saves, api_key, places_client, messages, tool_calls_log, tool_uses,
                   tu_index, tool_results, result, issued, responses, dispatched>>

\* client.messages.create raises: run() raises, the handler answers 500
InferenceFails ==
    /\ pc = "await"
    /\ nCalls < MaxCalls
    /\ nCalls' = nCalls + 1
    /\ pc' = "failed"
    /\ http' = "500"
    /\ UNCHANGED <<threadVars, db, saves, api_key, places_client, messages, tool_calls_log, tool_uses,
                   tu_index, tool_results, result, issued, responses, dispatched>>

\* the response meets the stop condition: run() returns, the handler answers 200
ModelEndsTurn ==
    /\ pc = "await"
    /\ nCalls < MaxCalls
    /\ \E response \in Responses :
        /\ StopCondition(response)
        /\ Received(response)
        /\ result' = Some([response |-> FinalText(response), tool_calls |-> tool_calls_log])
    /\ pc' = "done"
    /\ http' = "200"
    /\ UNCHANGED <<threadVars, db, saves, api_key, places_client, messages, tool_calls_log,
                   tu_index, tool_results, dispatched>>

\* a loop that allows one round of tools and then gives up
ModelRequestsToolsCapped ==
    /\ pc = "await"
    /\ nCalls < MaxCalls
    /\ \E response \in Responses :
        /\ ~StopCondition(response)
        /\ Received(response)
        /\ IF nCalls >= 1
           THEN /\ pc' = "failed"
                /\ http' = "500"
                /\ UNCHANGED <<messages, tu_index>>
           ELSE /\ messages' = Append(messages, [role |-> "assistant", content |-> response.content])
                /\ pc' = "exec"
                /\ tu_index' = 1
                /\ UNCHANGED http
    /\ tool_results' = <<>>
    /\ UNCHANGED <<threadVars, db, saves, api_key, places_client, tool_calls_log, result, dispatched>>

\* otherwise: the assistant message is appended and the for loop starts
ModelRequestsTools ==
    /\ pc = "await"
    /\ nCalls < MaxCalls
    /\ \E response \in Responses :
        /\ ~StopCondition(response)
        /\ Received(response)
        /\ LET assistant == [role |-> "assistant", content |-> response.content]
           IN  IF ToolUses(response.content) = <<>>
               THEN /\ messages' = messages \o <<assistant, [role |-> "user", content |-> <<>>]>>
                    /\ pc' = "await"
                    /\ tu_index' = 0
               ELSE /\ messages' = Append(messages, assistant)
                    /\ pc' = "exec"
                    /\ tu_index' = 1
    /\ tool_results' = <<>>
    /\ UNCHANGED <<threadVars, db, saves, api_key, places_client, tool_calls_log, result, http, dispatched>>

\* a log that keeps one entry per distinct call
LogAppendOnce(log, entry) ==
    IF \E k \in DOMAIN log : log[k] = entry THEN log ELSE Append(log, entry)

\* tool_calls_log.append(entry)
LogAppend(log, entry) == Append(log, entry)

\* a batch built newest first
ResultsPrepend(results, block) == <<block>> \o results

\* tool_results.append(block)
ResultsAppend(results, block) == Append(results, block)

\* a log entry that never carries the error flag
LogEntryUnflagged(tu, result_content, is_error) ==
    [tool |-> tu.name, input |-> tu.input, output |-> result_content, error |-> FALSE]

\* {"tool": tu.name, "input": tu.input, "output": result_content, "error": is_error}
LogEntry(tu, result_content, is_error) ==
    [tool |-> tu.name, input |-> tu.input, output |-> result_content, error |-> is_error]

\* {"type": "tool_result", "tool_use_id": tu.id, "content": ..., "is_error": ...}
ToolResult(tu, result_content, is_error) ==
    [type |-> "tool_result", tool_use_id |-> tu.id, content |-> result_content,
     is_error |-> is_error]

\* a for loop that hands its results back to the model after every tool
RecordAndAsk(tu, result_content, is_error) ==
    /\ tool_calls_log' = LogAppend(tool_calls_log, LogEntry(tu, result_content, is_error))
    /\ tool_results' = ResultsAppend(tool_results, ToolResult(tu, result_content, is_error))
    /\ messages' = Append(messages, [role |-> "user", content |-> tool_results'])
    /\ pc' = "await"
    /\ tu_index' = tu_index
    /\ UNCHANGED <<threadVars, saves, api_key, tool_uses, result, http, issued, nCalls, responses>>

\* the end of one iteration of the for loop, and `messages.append` after the last one
Record(tu, result_content, is_error) ==
    /\ tool_calls_log' = LogAppend(tool_calls_log, LogEntry(tu, result_content, is_error))
    /\ tool_results' = ResultsAppend(tool_results, ToolResult(tu, result_content, is_error))
    /\ IF tu_index = Len(tool_uses)
       THEN /\ messages' = Append(messages, [role |-> "user", content |-> tool_results'])
            /\ pc' = "await"
            /\ tu_index' = tu_index
       ELSE /\ tu_index' = tu_index + 1
            /\ UNCHANGED <<messages, pc>>
    /\ UNCHANGED <<threadVars, saves, api_key, tool_uses, result, http, issued, nCalls, responses>>

\* an exception that leaves run()
Propagated(tu, exc, fn) ==
    /\ dispatched' = Append(dispatched, [id |-> tu.id, name |-> tu.name, fn |-> fn,
                                         raised |-> exc.kind, msg |-> exc.msg])
    /\ pc' = "failed"
    /\ http' = "500"
    /\ UNCHANGED <<threadVars, saves, api_key, tool_uses, result, issued, nCalls, responses, messages,
                   tool_calls_log, tool_results, tu_index>>

\* `except Exception as exc`: fn is the callable that was looked up, "none" if none was
Caught(tu, exc, fn) ==
    /\ dispatched' = Append(dispatched, [id |-> tu.id, name |-> tu.name, fn |-> fn,
                                         raised |-> exc.kind, msg |-> exc.msg])
    /\ Record(tu, DumpsError(exc.msg), TRUE)

\* the try block ran to its end
Returned(tu, result_content) ==
    /\ dispatched' = Append(dispatched, [id |-> tu.id, name |-> tu.name, fn |-> tu.name,
                                         raised |-> "none", msg |-> ""])
    /\ Record(tu, result_content, FALSE)

\* a dispatcher that answers None for a name it does not know
DispatchUnknownIgnored ==
    /\ pc = "exec"
    /\ LET tu == tool_uses[tu_index]
       IN  /\ tu.name \notin TOOL_DISPATCH
           /\ dispatched' = Append(dispatched, [id |-> tu.id, name |-> tu.name, fn |-> "none",
                                                raised |-> "none", msg |-> ""])
           /\ Record(tu, "null", FALSE)
    /\ UNCHANGED <<db, places_client>>

\* _dispatch_tool: the name is not a key of _TOOL_DISPATCH
DispatchUnknown ==
    /\ pc = "exec"
    /\ LET tu == tool_uses[tu_index]
       IN  /\ tu.name \notin TOOL_DISPATCH
           /\ Caught(tu, [kind |-> "ValueError", msg |-> "Unknown tool: " \o tu.name], "none")
    /\ UNCHANGED <<db, places_client>>

\* _dispatch_tool: fn(**inputs) does not fit fn's signature
DispatchBadArguments ==
    /\ pc = "exec"
    /\ LET tu == tool_uses[tu_index]
       IN  /\ tu.name \in TOOL_DISPATCH
           /\ ~Binds(tu.name, tu.input)
           /\ Caught(tu, [kind |-> "TypeError",
                          msg |-> tu.name \o "() got unexpected or missing arguments"],
                     tu.name)
    /\ UNCHANGED <<db, places_client>>

ToolSearchRestaurants ==
    /\ pc = "exec"
    /\ LET tu == tool_uses[tu_index]
       IN  /\ tu.name = "search_restaurants"
           /\ Binds(tu.name, tu.input)
           /\ IF PlacesClientError # None
              THEN /\ Caught(tu, Val(PlacesClientError), tu.name)
                   /\ UNCHANGED places_client
              ELSE /\ places_client' = Some("client")
                   /\ \E g \in GeocodeResults, r \in PlacesResults :
                        Returned(tu, DumpsPlaces(SearchRestaurants(g, r)))
    /\ UNCHANGED db

ToolGetDetails ==
    /\ pc = "exec"
    /\ LET tu == tool_uses[tu_index]
       IN  /\ tu.name = "get_details"
           /\ Binds(tu.name, tu.input)
           /\ IF PlacesClientError # None
              THEN /\ Caught(tu, Val(PlacesClientError), tu.name)
                   /\ UNCHANGED places_client
              ELSE /\ places_client' = Some("client")
                   /\ \E place_response \in PlaceResponses :
                        IF place_response = "object"
                        THEN Caught(tu, [kind |-> "TypeError",
                                         msg |-> "Object of type MagicMock is not JSON serializable"],
                                    tu.name)
                        ELSE Returned(tu, DumpsDetails(GetDetails(place_response)))
    /\ UNCHANGED db

ToolSavePreference ==
    /\ pc = "exec"
    /\ LET tu == tool_uses[tu_index]
       IN  /\ tu.name = "save_preference"
           /\ Binds(tu.name, tu.input)
           /\ db' \in SavePreference(db, BindSave(tu.input))
           /\ Returned(tu, DumpsStatus(SaveResult(BindSave(tu.input))))
    /\ UNCHANGED places_client

ToolGetPreferences ==
    /\ pc = "exec"
    /\ LET tu == tool_uses[tu_index]
       IN  /\ tu.name = "get_preferences"
           /\ Binds(tu.name, tu.input)
           /\ Returned(tu, DumpsPrefs(GetPreferences(db, tu.input.user_id)))
    /\ UNCHANGED <<db, places_client>>

-----------------------------------------------------------------------------
(* Threads: the /run handler is a plain def, so the server runs each request *)
(* on a worker thread of its pool *)

Threads == {"t1", "t2"}
Invocations == {"r1", "r2"}
Modules == {"agent", "places"}

\* a thread that is not inside save_preference
IdleSession ==
    [at |-> "idle", args |-> NoArgs("u1"), new_user |-> FALSE, row |-> 0,
     pref |-> NewPreference("u1"), exc |-> "none"]

\* a thread that is not inside _get_client
IdleGetter == [fn |-> "agent", at |-> "idle", got |-> None, n |-> 0]

\* no direct search_restaurants call was made
NoSearch ==
    [geocode_result |-> <<>>, results |-> <<>>, returned |-> <<>>,
     geocode_calls |-> 0, places_calls |-> 0]

\* an invocation of run() that has not been called yet
NotRunning ==
    [pc |-> "idle", messages |-> <<>>, tool_calls_log |-> <<>>, tool_uses |-> <<>>,
     tu_index |-> 0, tool_results |-> <<>>, result |-> None, received |-> <<>>, sent |-> <<>>]

\* the module globals as imported, and no other thread at work
ThreadsIdle ==
    /\ search = NoSearch
    /\ sessions = [t \in Threads |-> IdleSession]
    /\ agent_client = None
    /\ constructed = [m \in Modules |-> 0]
    /\ getters = [t \in Threads |-> IdleGetter]
    /\ runs = [i \in Invocations |-> NotRunning]

\* run() has built its transcript and log and is about to enter the loop
RunLocals ==
    /\ places_client = None
    /\ pc = "await"
    /\ messages = <<SeedMessage(USER_ID, MESSAGE, LOCATION)>>
    /\ tool_calls_log = <<>>
    /\ tool_uses = <<>>
    /\ tu_index = 0
    /\ tool_results = <<>>
    /\ result = None
    /\ http = "pending"
    /\ issued = 0
    /\ nCalls = 0
    /\ responses = <<>>
    /\ dispatched = <<>>

Init ==
    /\ db = EmptyDb
    /\ saves = <<>>
    /\ api_key \in {"unset", "invalid", "valid"}
    /\ RunLocals
    /\ ThreadsIdle

Next ==
    \/ InferenceFails
    \/ ModelEndsTurn
    \/ ModelRequestsTools
    \/ DispatchUnknown
    \/ DispatchBadArguments
    \/ ToolSearchRestaurants
    \/ ToolGetDetails
    \/ ToolSavePreference
    \/ ToolGetPreferences

Spec == Init /\ [][Next]_vars

-----------------------------------------------------------------------------
(* run() with a provider and tools that always answer, and a model that    *)
(* gives a final response at its MaxCalls-th answer at the latest           *)

\* the model asks for tools while it has a later answer left
ModelStillRequestsTools ==
    /\ nCalls + 1 < MaxCalls
    /\ ModelRequestsTools

\* one iteration of the for loop, whichever tool is requested
ToolStep ==
    \/ DispatchUnknown
    \/ DispatchBadArguments
    \/ ToolSearchRestaurants
    \/ ToolGetDetails
    \/ ToolSavePreference
    \/ ToolGetPreferences

LiveNext ==
    \/ ModelEndsTurn
    \/ ModelStillRequestsTools
    \/ ToolStep

\* the places key is set and valid, so the places provider is reached
LiveInit ==
    /\ db = EmptyDb
    /\ saves = <<>>
    /\ api_key = "valid"
    /\ RunLocals
    /\ ThreadsIdle

\* the thread of run() keeps running, and every inference call is answered
LiveSpec ==
    /\ LiveInit
    /\ [][LiveNext]_vars
    /\ WF_vars(ToolStep)
    /\ WF_vars(ModelEndsTurn \/ ModelStillRequestsTools)

-----------------------------------------------------------------------------
(* Direct calls of the preference tools *)

\* the calls explored: at most one list field, with or without a price_range
SaveArgs ==
    LET lists == {NoArgs(u) : u \in Users}
                 \cup { [NoArgs(u) EXCEPT ![f] = Some(v)] :
                          u \in Users, f \in LIST_FIELDS, v \in ListInputs }
    IN  lists \cup { [a EXCEPT !.price_range = Some(p)] : a \in lists, p \in PriceInputs }

\* every value passed so far for list field f of user u
Supplied(u, f) ==
    UNION { ToSet(Val(saves[i][f])) :
            i \in {j \in DOMAIN saves : saves[j].user_id = u /\ saves[j][f] # None} }

PrefInit ==
    /\ db = EmptyDb
    /\ saves = <<>>
    /\ api_key = "unset"
    /\ RunLocals
    /\ ThreadsIdle

CallSavePreference ==
    /\ Len(saves) < MaxSaves
    /\ \E a \in SaveArgs :
        /\ db' \in SavePreference(db, a)
        /\ saves' = Append(saves, a)
    /\ UNCHANGED <<runVars, threadVars>>

\* get_preferences only reads the store
CallGetPreferences ==
    /\ \E u \in Users : GetPreferences(db, u).user_id = u
    /\ UNCHANGED vars

PrefNext == CallSavePreference \/ CallGetPreferences

PrefSpec == PrefInit /\ [][PrefNext]_vars

-----------------------------------------------------------------------------
(* save_preference on concurrent threads: each call works in a Session of  *)
(* its own over the one SQLite database of memory/store.py                 *)

\* the calls explored on threads
ThreadArgs ==
    { [NoArgs(u) EXCEPT !.cuisines_liked = Some(v)] : u \in Users, v \in {<<"Thai">>, <<"Italian">>} }
    \cup { [NoArgs(u) EXCEPT !.price_range = Some("$$")] : u \in Users }

\* threads inside save_preference, and threads whose call raised
Busy == {t \in Threads : sessions[t].at # "idle"}

\* another session has flushed an INSERT and holds the database's write lock
\* until it commits
WriteLocked(t) ==
    \E o \in Threads \ {t} : sessions[o].at = "loaded" /\ sessions[o].new_user

\* `with get_session() as session`, session.get(User, user_id), and
\* session.add(User(id=user_id)) when there is no such row
OpenSession(t) ==
    /\ sessions[t].at = "idle"
    /\ Len(saves) + Cardinality(Busy) < MaxSessions
    /\ \E a \in ThreadArgs :
        sessions' = [sessions EXCEPT ![t] =
                        [at |-> "user_read", args |-> a, new_user |-> a.user_id \notin db.users,
                         row |-> 0, pref |-> NewPreference(a.user_id), exc |-> "none"]]
    /\ UNCHANGED <<db, saves, runVars, search, agent_client, constructed, getters, runs>>

\* session.query(Preference).filter_by(user_id=user_id).first(): the query
\* first flushes a pending User row, which takes the write lock and fails if
\* the row has been committed by another session meanwhile; the Preference
\* row found is loaded into the session, a new one is added if none is found
QueryPreference(t) ==
    /\ sessions[t].at = "user_read"
    /\ sessions[t].new_user => ~WriteLocked(t)
    /\ LET user_id == sessions[t].args.user_id
           row == FirstPref(db.prefs, user_id)
       IN  IF sessions[t].new_user /\ user_id \in db.users
           THEN sessions' = [sessions EXCEPT ![t].at = "failed", ![t].exc = "IntegrityError"]
           ELSE sessions' = [sessions EXCEPT
                                ![t].at = "loaded",
                                ![t].row = row,
                                ![t].pref = IF row = 0 THEN NewPreference(user_id)
                                            ELSE db.prefs[row]]
    /\ UNCHANGED <<db, saves, runVars, search, agent_client, constructed, getters, runs>>

\* the rows a flush may write for the session's Preference object: the given
\* columns, merged with what the session loaded; the other columns as stored
FlushedRows(stored, loaded, a) ==
    { [user_id |-> loaded.user_id,
       cuisines_liked |-> cl, cuisines_disliked |-> cd, dietary_restrictions |-> dr,
       price_range |-> IF a.price_range # None THEN a.price_range ELSE stored.price_range,
       liked_place_ids |-> lp, disliked_place_ids |-> dp] :
      cl \in IF a.cuisines_liked # None
             THEN MergedField(loaded.cuisines_liked, a.cuisines_liked)
             ELSE {stored.cuisines_liked},
      cd \in IF a.cuisines_disliked # None
             THEN MergedField(loaded.cuisines_disliked, a.cuisines_disliked)
             ELSE {stored.cuisines_disliked},
      dr \in IF a.dietary_restrictions # None
             THEN MergedField(loaded.dietary_restrictions, a.dietary_restrictions)
             ELSE {stored.dietary_restrictions},
      lp \in IF a.liked_place_ids # None
             THEN MergedField(loaded.liked_place_ids, a.liked_place_ids)
             ELSE {stored.liked_place_ids},
      dp \in IF a.disliked_place_ids # None
             THEN MergedField(loaded.disliked_place_ids, a.disliked_place_ids)
             ELSE {stored.disliked_place_ids} }

\* the merges of lines 38-54 on the loaded object, then session.commit():
\* INSERT of the new rows, or UPDATE of the changed columns of the loaded row
CommitSession(t) ==
    /\ sessions[t].at = "loaded"
    /\ ~WriteLocked(t)
    /\ LET s == sessions[t]
       IN  /\ \E written \in FlushedRows(IF s.row = 0 THEN s.pref ELSE db.prefs[s.row],
                                          s.pref, s.args) :
                db' = [users |-> db.users \cup {s.args.user_id},
                       prefs |-> IF s.row = 0 THEN Append(db.prefs, ApplyDefaults(written))
                                 ELSE [db.prefs EXCEPT ![s.row] = ApplyDefaults(written)]]
           /\ saves' = Append(saves, s.args)
    /\ sessions' = [sessions EXCEPT ![t] = IdleSession]
    /\ UNCHANGED <<runVars, search, agent_client, constructed, getters, runs>>

\* the write lock stays taken for longer than the driver waits for it
LockTimeout(t) ==
    /\ \/ sessions[t].at = "user_read" /\ sessions[t].new_user
       \/ sessions[t].at = "loaded"
    /\ WriteLocked(t)
    /\ sessions' = [sessions EXCEPT ![t].at = "failed", ![t].exc = "OperationalError"]
    /\ UNCHANGED <<db, saves, runVars, search, agent_client, constructed, getters, runs>>

SessionInit ==
    /\ db = EmptyDb
    /\ saves = <<>>
    /\ api_key = "unset"
    /\ RunLocals
    /\ ThreadsIdle

SessionNext ==
    \E t \in Threads :
        \/ OpenSession(t)
        \/ QueryPreference(t)
        \/ CommitSession(t)
        \/ LockTimeout(t)

SessionSpec == SessionInit /\ [][SessionNext]_vars

-----------------------------------------------------------------------------
(* _get_client of agent.py and of tools/places.py on concurrent threads;    *)
(* a client instance is named by the number of the constructor run that     *)
(* made it                                                                  *)

\* the module global _client
Handle(m) == IF m = "agent" THEN agent_client ELSE places_client

\* `global _client` and `if _client is None`: the thread reads the handle
CheckClient(t) ==
    /\ getters[t].at \in {"idle", "returned"}
    /\ getters[t].n < MaxGets
    /\ \E m \in Modules :
        getters' = [getters EXCEPT ![t].fn = m,
                                   ![t].at = IF Handle(m) = None THEN "construct" ELSE "return"]
    /\ UNCHANGED <<db, saves, api_key, places_client, pc, messages, tool_calls_log, tool_uses,
                   tu_index, tool_results, result, http, issued, nCalls, responses, dispatched,
                   search, sessions, agent_client, constructed, runs>>

\* the body of the if: the constructor runs and its instance is stored in
\* the global; places._get_client raises instead when the key is not set,
\* and the constructor it calls raises when the key is not valid
ConstructClient(t) ==
    /\ getters[t].at = "construct"
    /\ LET m == getters[t].fn
           made == constructed[m] + 1
       IN  IF m = "places" /\ api_key = "unset"
           THEN /\ getters' = [getters EXCEPT ![t].at = "raised"]
                /\ UNCHANGED <<agent_client, places_client, constructed>>
           ELSE IF m = "places" /\ api_key = "invalid"
           THEN /\ getters' = [getters EXCEPT ![t].at = "raised"]
                /\ constructed' = [constructed EXCEPT ![m] = made]
                /\ UNCHANGED <<agent_client, places_client>>
           ELSE /\ getters' = [getters EXCEPT ![t].at = "return"]
                /\ constructed' = [constructed EXCEPT ![m] = made]
                /\ IF m = "agent"
                   THEN agent_client' = Some(made) /\ UNCHANGED places_client
                   ELSE places_client' = Some(made) /\ UNCHANGED agent_client
    /\ UNCHANGED <<db, saves, api_key, pc, messages, tool_calls_log, tool_uses,
                   tu_index, tool_results, result, http, issued, nCalls, responses, dispatched,
                   search, sessions, runs>>

\* `return _client`: the global is read again
ReturnClient(t) ==
    /\ getters[t].at = "return"
    /\ getters' = [getters EXCEPT ![t].at = "returned",
                                  ![t].got = Handle(getters[t].fn),
                                  ![t].n = getters[t].n + 1]
    /\ UNCHANGED <<db, saves, api_key, places_client, pc, messages, tool_calls_log, tool_uses,
                   tu_index, tool_results, result, http, issued, nCalls, responses, dispatched,
                   search, sessions, agent_client, constructed, runs>>

ClientInit ==
    /\ db = EmptyDb
    /\ saves = <<>>
    /\ api_key \in {"unset", "invalid", "valid"}
    /\ RunLocals
    /\ ThreadsIdle

ClientNext ==
    \E t \in Threads :
        \/ CheckClient(t)
        \/ ConstructClient(t)
        \/ ReturnClient(t)

ClientSpec == ClientInit /\ [][ClientNext]_vars

-----------------------------------------------------------------------------
(* Direct calls of search_restaurants *)

\* the lists client.places(...) may hold under "results" (none when the key
\* is missing): up to MaxResults places
PlaceListings == UNION {[1..n -> {PLACE_1, PLACE_2}] : n \in 0..MaxResults}

\* search_restaurants(query, location): client.geocode is called once, and
\* client.places only when geocoding found the location
CallSearchRestaurants ==
    /\ search = NoSearch
    /\ PlacesClientError = None
    /\ places_client' = Some("client")
    /\ \E g \in GeocodeResults :
        IF g = <<>>
        THEN search' = [geocode_result |-> g, results |-> <<>>,
                        returned |-> SearchRestaurants(g, <<>>),
                        geocode_calls |-> 1, places_calls |-> 0]
        ELSE \E r \in PlaceListings :
                search' = [geocode_result |-> g, results |-> r,
                           returned |-> SearchRestaurants(g, r),
                           geocode_calls |-> 1, places_calls |-> 1]
    /\ UNCHANGED <<db, saves, api_key, pc, messages, tool_calls_log, tool_uses,
                   tu_index, tool_results, result, http, issued, nCalls, responses, dispatched,
                   sessions, agent_client, constructed, getters, runs>>

PlacesInit ==
    /\ db = EmptyDb
    /\ saves = <<>>
    /\ api_key = "valid"
    /\ RunLocals
    /\ ThreadsIdle

PlacesNext == CallSearchRestaurants

PlacesSpec == PlacesInit /\ [][PlacesNext]_vars

-----------------------------------------------------------------------------
(* Concurrent invocations of run(): each has its own locals (pc, messages,  *)
(* tool_calls_log, tool_uses, tu_index, tool_results), and keeps as history *)
(* the responses it received and the transcripts it sent to the provider;   *)
(* the store and the provider are shared. A tool call is taken as one step. *)

\* the arguments of the two requests
RunArgs(i) ==
    IF i = "r1" THEN [user_id |-> USER_ID, message |-> MESSAGE, location |-> LOCATION]
    ELSE [user_id |-> "u2", message |-> "Find me sushi", location |-> "Oakland, CA"]

\* what the model may answer to invocation i: a final text, or requests for
\* tools about the user named in the transcript it was sent
RunResponses(i) ==
    LET user_id == RunArgs(i).user_id
        save == [type |-> "tool_use", name |-> "save_preference",
                 input |-> [user_id |-> user_id, cuisines_liked |-> <<"Thai">>]]
        get == [type |-> "tool_use", name |-> "get_preferences", input |-> [user_id |-> user_id]]
        book == [type |-> "tool_use", name |-> "book_table", input |-> [place_id |-> "ChIJtest1"]]
        text == [type |-> "text", text |-> "a"]
    IN  { [stop_reason |-> "end_turn", content |-> <<text>>] }
        \cup { [stop_reason |-> "tool_use", content |-> WithIds(shapes, issued)] :
                 shapes \in {<<save>>, <<book>>, <<text, save, get>>} }

\* a log shared by all invocations
AppendToSharedLog(rs, i, entry) ==
    [j \in Invocations |->
        [rs[j] EXCEPT !.tool_calls_log = LogAppend(rs[j].tool_calls_log, entry)]]

\* tool_calls_log.append(entry) on the list that invocation i created
AppendToLog(rs, i, entry) ==
    [rs EXCEPT ![i].tool_calls_log = LogAppend(rs[i].tool_calls_log, entry)]

\* the try/except around _dispatch_tool and json.dumps, for the tools the
\* model asks for here: the store left behind, the payload and the error flag
ToolOutcomes(d, tu) ==
    IF tu.name \notin TOOL_DISPATCH
    THEN {[db |-> d, content |-> DumpsError("Unknown tool: " \o tu.name), is_error |-> TRUE]}
    ELSE IF tu.name = "save_preference"
    THEN {[db |-> after, content |-> DumpsStatus(SaveResult(BindSave(tu.input))),
           is_error |-> FALSE] : after \in SavePreference(d, BindSave(tu.input))}
    ELSE {[db |-> d, content |-> DumpsPrefs(GetPreferences(d, tu.input.user_id)),
           is_error |-> FALSE]}

\* run() is called: it builds its transcript and its log
BeginRun(i) ==
    /\ runs[i].pc = "idle"
    /\ runs' = [runs EXCEPT ![i].pc = "await",
                            ![i].messages = <<SeedMessage(RunArgs(i).user_id, RunArgs(i).message,
                                                          RunArgs(i).location)>>,
                            ![i].tool_calls_log = <<>>]
    /\ UNCHANGED <<db, saves, runVars, search, sessions, agent_client, constructed, getters>>

\* client.messages.create(messages=messages) and what follows the response:
\* the return, or the assistant message and the start of the for loop
RunInfers(i) ==
    /\ runs[i].pc = "await"
    /\ Len(runs[i].received) < MaxRunCalls
    /\ \E response \in RunResponses(i) :
        /\ issued' = issued + Len(ToolUses(response.content))
        /\ IF StopCondition(response)
           THEN runs' = [runs EXCEPT
                    ![i].pc = "done",
                    ![i].sent = Append(@, runs[i].messages),
                    ![i].received = Append(@, response),
                    ![i].tool_uses = ToolUses(response.content),
                    ![i].result = Some([response |-> FinalText(response),
                                        tool_calls |-> runs[i].tool_calls_log])]
           ELSE runs' = [runs EXCEPT
                    ![i].pc = "exec",
                    ![i].sent = Append(@, runs[i].messages),
                    ![i].received = Append(@, response),
                    ![i].tool_uses = ToolUses(response.content),
                    ![i].messages = Append(@, [role |-> "assistant", content |-> response.content]),
                    ![i].tool_results = <<>>,
                    ![i].tu_index = 1]
    /\ UNCHANGED <<db, saves, api_key, places_client, pc, messages, tool_calls_log, tool_uses,
                   tu_index, tool_results, result, http, nCalls, responses, dispatched,
                   search, sessions, agent_client, constructed, getters>>

\* one iteration of the for loop, and messages.append after the last one
RunExecutes(i) ==
    /\ runs[i].pc = "exec"
    /\ LET tu == runs[i].tool_uses[runs[i].tu_index]
           last == runs[i].tu_index = Len(runs[i].tool_uses)
       IN  \E out \in ToolOutcomes(db, tu) :
            LET batch == ResultsAppend(runs[i].tool_results,
                                       ToolResult(tu, out.content, out.is_error))
                logged == AppendToLog(runs, i, LogEntry(tu, out.content, out.is_error))
            IN  /\ db' = out.db
                /\ runs' = [logged EXCEPT
                        ![i].tool_results = batch,
                        ![i].tu_index = IF last THEN @ ELSE @ + 1,
                        ![i].pc = IF last THEN "await" ELSE "exec",
                        ![i].messages = IF last THEN Append(@, [role |-> "user", content |-> batch])
                                        ELSE @]
    /\ UNCHANGED <<saves, runVars, search, sessions, agent_client, constructed, getters>>

RunsInit ==
    /\ db = EmptyDb
    /\ saves = <<>>
    /\ api_key = "unset"
    /\ RunLocals
    /\ ThreadsIdle

RunsNext ==
    \E i \in Invocations :
        \/ BeginRun(i)
        \/ RunInfers(i)
        \/ RunExecutes(i)

RunsSpec == RunsInit /\ [][RunsNext]_vars

-----------------------------------------------------------------------------
(* Properties of run() *)

Last(seq) == seq[Len(seq)]

\* the tool-request blocks among content blocks
RequestBlocks(content) == SelectSeq(content, LAMBDA b : b.type = "tool_use")

RECURSIVE Requests(_)
\* every tool-request block of the responses rs, in the order received
Requests(rs) == IF rs = <<>> THEN <<>> ELSE RequestBlocks(rs[1].content) \o Requests(Tail(rs))

\* the tool-result batches of the transcript, oldest first, and their blocks
Batches == [k \in 1..((Len(messages) - 1) \div 2) |-> messages[2 * k + 1].content]

RECURSIVE Concat(_)
Concat(seqs) == IF seqs = <<>> THEN <<>> ELSE seqs[1] \o Concat(Tail(seqs))

ResultBlocks == Concat(Batches)

Count(seq, Test(_)) == Cardinality({k \in DOMAIN seq : Test(seq[k])})

IsPrefix(s, t) == Len(s) <= Len(t) /\ SubSeq(t, 1, Len(s)) = s

\* the user message `batch` answers the assistant message before it, request by request
Answers(batch, assistant) ==
    LET requests == RequestBlocks(assistant.content)
    IN  /\ assistant.role = "assistant"
        /\ batch.role = "user"
        /\ Len(batch.content) = Len(requests)
        /\ \A k \in DOMAIN requests :
            /\ batch.content[k].type = "tool_result"
            /\ batch.content[k].tool_use_id = requests[k].id

\* C1: whenever run() is at a model-inference call, the transcript is the seed
\* message followed by pairs (assistant message, user message), and each
\* user message holds exactly one tool-result block per tool-request block
\* of the assistant message before it, the k-th result carrying the
\* identifier of the k-th request; so no request is unanswered at a call, and
\* at every call after the first the last message is such a batch.
C1_ResultsAnswerRequestsInOrder ==
    pc = "await" =>
        /\ Len(messages) = 2 * nCalls + 1
        /\ \A j \in 1..Len(messages) :
            j % 2 = 0 => (j < Len(messages) /\ Answers(messages[j + 1], messages[j]))

\* a response with three tool-requests has been answered and the next call is due
C1_Witness ==
    /\ pc = "await"
    /\ nCalls = 1
    /\ Len(Last(messages).content) = 3
    /\ Last(messages).content[1].tool_use_id = 1
    /\ Last(messages).content[3].tool_use_id = 3

LastEndsTurn == Last(responses).stop_reason = "end_turn"
LastHasRequests == \E k \in DOMAIN Last(responses).content :
                        Last(responses).content[k].type = "tool_use"

\* C2 as claimed: run() returns only on a response that both signals
\* end-of-turn and holds no tool-request, and continues on every other one.
C2_ReturnsOnlyOnBoth ==
    /\ pc = "done" => (LastEndsTurn /\ ~LastHasRequests)
    /\ (responses # <<>> /\ ~(LastEndsTurn /\ ~LastHasRequests)) => pc # "done"

\* C2 amended: run() returns a Run Result exactly when the response signals
\* end-of-turn or holds no tool-request; it goes on to tool execution and
\* another call only on a response that holds at least one tool-request and
\* does not signal end-of-turn. A result exists only after such a return.
C2_ReturnsOnEither ==
    /\ result # None <=> pc = "done"
    /\ pc = "done" => (LastEndsTurn \/ ~LastHasRequests)
    /\ (pc \in {"exec", "await"} /\ responses # <<>>) => (~LastEndsTurn /\ LastHasRequests)
    /\ pc = "failed" => nCalls = Len(responses) + 1

\* run() returned on a response that does not signal end-of-turn
C2_Witness ==
    /\ pc = "done"
    /\ ~LastEndsTurn
    /\ ~LastHasRequests
    /\ result # None

\* C3 as claimed: once run() has returned or is at the next call, every
\* tool-request of every response received was dispatched exactly once and
\* has exactly one tool-result block with its identifier in the transcript.
C3_NoRequestDropped ==
    pc \in {"done", "await"} =>
        \A k \in DOMAIN Requests(responses) :
            LET id == Requests(responses)[k].id
            IN  /\ Count(dispatched, LAMBDA d : d.id = id) = 1
                /\ Count(ResultBlocks, LAMBDA b : b.tool_use_id = id) = 1

\* C3 amended: a tool-request is dropped only with its whole response, when
\* that response signals end-of-turn: run() then returns with none of its
\* requests dispatched or answered. Every tool-request of a response that
\* does not signal end-of-turn is dispatched exactly once and gets exactly
\* one tool-result block with its identifier in the transcript. No request is
\* ever dispatched or answered twice.
C3_DroppedOnlyOnEndTurn ==
    \A j \in DOMAIN responses :
        \A k \in DOMAIN RequestBlocks(responses[j].content) :
            LET id == RequestBlocks(responses[j].content)[k].id
                calls == Count(dispatched, LAMBDA d : d.id = id)
                answers == Count(ResultBlocks, LAMBDA b : b.tool_use_id = id)
            IN  /\ calls <= 1
                /\ answers <= 1
                /\ responses[j].stop_reason = "end_turn" => (calls = 0 /\ answers = 0)
                /\ (responses[j].stop_reason # "end_turn" /\ pc \in {"done", "await"})
                       => (calls = 1 /\ answers = 1)

\* two requests of a first response were executed and answered, then a
\* response that signals end-of-turn ended the run with its request dropped
C3_Witness ==
    /\ pc = "done"
    /\ nCalls = 2
    /\ Len(RequestBlocks(responses[1].content)) = 2
    /\ Len(RequestBlocks(responses[2].content)) = 1
    /\ Len(dispatched) = 2
    /\ Len(ResultBlocks) = 2

C4_Contained ==
    /\ \A j \in DOMAIN dispatched :
        dispatched[j].raised # "none" =>
            /\ j <= Len(tool_calls_log)
            /\ tool_calls_log[j].error = TRUE
            /\ tool_calls_log[j].output = DumpsError(dispatched[j].msg)
            /\ pc \in {"await", "done"} =>
                \E k \in DOMAIN ResultBlocks :
                    /\ ResultBlocks[k].tool_use_id = dispatched[j].id
                    /\ ResultBlocks[k].is_error = TRUE
                    /\ ResultBlocks[k].content = DumpsError(dispatched[j].msg)
    /\ pc = "failed" => nCalls = Len(responses) + 1
    /\ pc = "await" /\ responses # <<>> =>
        \A k \in DOMAIN RequestBlocks(Last(responses).content) :
            \E j \in DOMAIN dispatched : dispatched[j].id = RequestBlocks(Last(responses).content)[k].id

C4_ContainedStep ==
    (dispatched' # dispatched /\ Last(dispatched').raised # "none") =>
        /\ pc' \in {"exec", "await"}
        /\ tu_index < Len(tool_uses) => (pc' = "exec" /\ tu_index' = tu_index + 1)
        /\ tu_index = Len(tool_uses) => (pc' = "await" /\ Len(messages') = Len(messages) + 1)

\* C4: a failure while executing a requested tool (the callable raises, the
\* arguments do not fit its signature, the result cannot be serialized) never
\* leaves run(): the log entry and the tool-result block of that request have
\* the error flag set and {"error": <message>} as payload, the loop moves on
\* to the next request of the response, or after the last one appends the
\* batch and is at the next inference call.
C4_ToolFailureContained == [](C4_Contained) /\ [][C4_ContainedStep]_vars

\* the first of two requests failed, the second ran, and run() went on to return
C4_Witness ==
    /\ pc = "done"
    /\ nCalls = 2
    /\ Len(tool_calls_log) = 2
    /\ tool_calls_log[1].error = TRUE
    /\ tool_calls_log[2].error = FALSE
    /\ Len(messages[3].content) = 2

C5_NoResultOnFailure ==
    /\ nCalls = Len(responses) + (IF pc = "failed" THEN 1 ELSE 0)
    /\ pc = "failed" => (result = None /\ http = "500")
    /\ http = "200" <=> result # None
    /\ http = "500" => pc = "failed"

\* C5: a failing model-inference call is issued once and is the last thing
\* run() does: no later step changes anything, no Run Result exists (neither
\* text nor the log gathered so far), and the /run handler answers 500.
C5_InferenceFailureIsFatal ==
    [](C5_NoResultOnFailure) /\ [][pc = "failed" => UNCHANGED vars]_vars

\* the second inference call failed after one tool call had been logged
C5_Witness ==
    /\ pc = "failed"
    /\ nCalls = 2
    /\ Len(tool_calls_log) = 1
    /\ result = None
    /\ http = "500"

C6_OneEntryPerInvocation ==
    /\ Len(tool_calls_log) = Len(dispatched)
    /\ \A j \in DOMAIN dispatched :
        /\ dispatched[j].id = j
        /\ tool_calls_log[j].tool = Requests(responses)[j].name
        /\ tool_calls_log[j].input = Requests(responses)[j].input
    /\ pc = "done" => Val(result).tool_calls = tool_calls_log

\* C6: the tool-call log holds one entry per tool invocation, in invocation
\* order (cycle by cycle, within a cycle in request order), identical
\* requests included; the log only grows at its end; run() returns it whole.
C6_LogIsInvocationHistory ==
    [](C6_OneEntryPerInvocation) /\ [][IsPrefix(tool_calls_log, tool_calls_log')]_vars

\* two identical requests in two cycles left two identical entries
C6_Witness ==
    /\ pc = "done"
    /\ Len(Val(result).tool_calls) = 2
    /\ Val(result).tool_calls[1] = Val(result).tool_calls[2]
    /\ nCalls = 3

RECURSIVE NewlineJoined(_)
\* the texts separated by newlines, built from the right
NewlineJoined(texts) ==
    IF Len(texts) = 0 THEN ""
    ELSE IF Len(texts) = 1 THEN texts[1]
    ELSE NewlineJoined(SubSeq(texts, 1, Len(texts) - 1)) \o "\n" \o Last(texts)

\* C7: when the first response holds no tool-request, run() has returned
\* after that one inference call, with an empty tool-call log and the
\* newline-join of the response's text blocks (in order; "" for none) as text,
\* in a mapping with exactly the keys response and tool_calls.
C7_NoToolRoundTrip ==
    (responses # <<>> /\ \A k \in DOMAIN responses[1].content :
                            responses[1].content[k].type = "text") =>
        /\ pc = "done"
        /\ nCalls = 1
        /\ DOMAIN Val(result) = {"response", "tool_calls"}
        /\ Val(result).tool_calls = <<>>
        /\ Val(result).response =
            NewlineJoined([k \in DOMAIN responses[1].content |-> responses[1].content[k].text])

\* the first response is the text blocks "a" and "b": the answer is "a\nb"
C7_Witness ==
    /\ pc = "done"
    /\ nCalls = 1
    /\ Len(responses[1].content) = 2
    /\ Val(result).response = "a\nb"

\* C8 as claimed: when run() has returned, what the model answered is k
\* responses with tool-requests and then one without, run() made k+1
\* inference calls, every request was invoked once and the returned log has
\* one entry per request.
C8_CallsPerScript ==
    pc = "done" =>
        /\ \A j \in 1..(Len(responses) - 1) : RequestBlocks(responses[j].content) # <<>>
        /\ RequestBlocks(Last(responses).content) = <<>>
        /\ nCalls = Len(responses)
        /\ \A k \in DOMAIN Requests(responses) :
            Count(dispatched, LAMBDA d : d.id = Requests(responses)[k].id) = 1
        /\ Len(Val(result).tool_calls) = Len(Requests(responses))

\* C8 amended: when run() has returned, every response before the last held
\* tool-requests and did not signal end-of-turn, the last one holds no
\* tool-request or signals end-of-turn, run() made one inference call per
\* response, each request of the earlier responses was invoked once, and the
\* returned log has one entry per such request, with the tool name and
\* input of the request and the payload of its tool-result block. A
\* response that holds tool-requests and signals end-of-turn ends the run
\* without invoking them.
C8_CallsPerExecutedResponse ==
    pc = "done" =>
        LET executed == Requests(SubSeq(responses, 1, Len(responses) - 1))
        IN  /\ \A j \in 1..(Len(responses) - 1) :
                /\ RequestBlocks(responses[j].content) # <<>>
                /\ responses[j].stop_reason # "end_turn"
            /\ (RequestBlocks(Last(responses).content) = <<>>
                    \/ Last(responses).stop_reason = "end_turn")
            /\ nCalls = Len(responses)
            /\ Len(dispatched) = Len(executed)
            /\ Len(Val(result).tool_calls) = Len(executed)
            /\ Len(ResultBlocks) = Len(executed)
            /\ \A k \in DOMAIN executed :
                /\ dispatched[k].id = executed[k].id
                /\ Val(result).tool_calls[k].tool = executed[k].name
                /\ Val(result).tool_calls[k].input = executed[k].input
                /\ Val(result).tool_calls[k].output = ResultBlocks[k].content

\* two responses with one tool-request each, then a final response
C8_Witness ==
    /\ pc = "done"
    /\ nCalls = 3
    /\ Len(dispatched) = 2
    /\ Len(Val(result).tool_calls) = 2
    /\ RequestBlocks(responses[3].content) = <<>>

UnknownDispatches == {j \in DOMAIN dispatched : dispatched[j].name \notin TOOL_DISPATCH}

C9_UnknownFailsLoudly ==
    \A j \in DOMAIN dispatched :
        /\ dispatched[j].fn = "none" <=> j \in UnknownDispatches
        /\ j \in UnknownDispatches =>
            /\ dispatched[j].raised = "ValueError"
            /\ dispatched[j].msg = "Unknown tool: " \o dispatched[j].name
            /\ tool_calls_log[j].error = TRUE
            /\ tool_calls_log[j].output = DumpsError("Unknown tool: " \o dispatched[j].name)
            /\ pc \in {"await", "done"} =>
                \E k \in DOMAIN ResultBlocks :
                    /\ ResultBlocks[k].tool_use_id = dispatched[j].id
                    /\ ResultBlocks[k].is_error = TRUE

C9_UnknownStep ==
    (dispatched' # dispatched /\ Last(dispatched').name \notin TOOL_DISPATCH) =>
        /\ db' = db
        /\ places_client' = places_client
        /\ pc' \in {"exec", "await"}

\* C9 as claimed: besides failing loudly, calling no callable and being
\* contained, the error of an unknown name is of a kind that no failure of a
\* registered tool's callable has.
C9_DistinctKind ==
    /\ C9_UnknownFailsLoudly
    /\ \A j, k \in DOMAIN dispatched :
        (j \in UnknownDispatches /\ k \notin UnknownDispatches /\ dispatched[k].raised # "none")
            => dispatched[j].raised # dispatched[k].raised

\* C9 amended: dispatching a name that is not a key of the registry calls no
\* callable and changes nothing outside run(); it raises a ValueError with the
\* message "Unknown tool: <name>", which run() contains as an error-flagged
\* log entry and tool-result block. ValueError is not reserved for this:
\* only the message tells it from a registered tool's failure.
C9_UnknownToolContained == [](C9_UnknownFailsLoudly) /\ [][C9_UnknownStep]_vars

\* an unknown tool was requested, answered with an error, and run() returned
C9_Witness ==
    /\ pc = "done"
    /\ UnknownDispatches # {}
    /\ \E j \in DOMAIN tool_calls_log :
        tool_calls_log[j].output = "{\"error\": \"Unknown tool: book_table\"}"

C16_Transition ==
    /\ pc = "await" =>
        /\ pc' \in {"await", "exec", "done", "failed"}
        /\ responses' # responses =>
            /\ pc' \in {"done", "exec"}
            /\ pc' = "done" <=>
                (RequestBlocks(Last(responses').content) = <<>>
                    \/ Last(responses').stop_reason = "end_turn")
            /\ pc' = "exec" =>
                /\ tool_uses' = RequestBlocks(Last(responses').content)
                /\ tu_index' = 1
                /\ tool_results' = <<>>
    /\ pc = "exec" =>
        /\ pc' \in {"exec", "await"}
        /\ nCalls' = nCalls
        /\ pc' = "await" =>
            /\ tu_index = Len(tool_uses)
            /\ messages' = Append(messages, [role |-> "user", content |-> tool_results'])
            /\ Len(tool_results') = Len(tool_uses)
            /\ \A k \in DOMAIN tool_uses : tool_results'[k].tool_use_id = tool_uses[k].id
        /\ pc' = "exec" => (tu_index < Len(tool_uses) /\ messages' = messages)
    /\ pc = "done" => UNCHANGED vars

\* C16: the loop starts at AWAITING_MODEL ("await"); a response takes it to
\* DONE exactly when it holds no tool-request or signals end-of-turn, and
\* to EXECUTING_TOOLS ("exec") otherwise; from EXECUTING_TOOLS it goes
\* back to AWAITING_MODEL only with the step that appends the batch holding
\* the results of all tool-requests of the response, and makes no inference
\* call before; nothing changes once DONE is reached.
C16_StateMachine == (pc = "await" /\ nCalls = 0) /\ [][C16_Transition]_vars

\* two tools were executed, their batch appended, and the next response ended the run
C16_Witness ==
    /\ pc = "done"
    /\ nCalls = 2
    /\ Len(messages) = 3
    /\ Len(messages[3].content) = 2
    /\ Len(RequestBlocks(responses[1].content)) = 2
    /\ responses[1].stop_reason = "tool_use"

C17_NoCap ==
    /\ pc \in {"await", "exec", "done"}
    /\ http # "500"
    /\ pc = "done" =>
        (RequestBlocks(Last(responses).content) = <<>>
            \/ Last(responses).stop_reason = "end_turn")
    /\ (\A j \in DOMAIN responses :
            /\ RequestBlocks(responses[j].content) # <<>>
            /\ responses[j].stop_reason # "end_turn")
        => (pc \in {"await", "exec"} /\ result = None /\ Len(messages) >= 2 * Len(responses))

\* C17: with a provider and tools that always return, run() goes through as
\* many cycles as the model asks for: as long as every response so far asks
\* for tools without signalling end-of-turn, run() has neither returned nor
\* raised, whatever the number of cycles; it returns only on a terminal
\* response; and once the model gives a terminal response run() reaches
\* DONE.
C17_NoCycleCap == [](C17_NoCap) /\ <>(pc = "done")

\* run() returned after as many tool cycles as the model explored can ask for
C17_Witness ==
    /\ pc = "done"
    /\ nCalls = MaxCalls
    /\ Len(tool_calls_log) = MaxCalls - 1
    /\ \A j \in 1..(MaxCalls - 1) : responses[j].stop_reason = "tool_use"

C18_Alternates ==
    /\ Len(messages) >= 1
    /\ messages[1] =
        [role |-> "user",
         content |-> "[user_id=u1] [location=San Francisco, CA]\n\nFind me ramen"]
    /\ pc = "await" =>
        /\ Len(messages) = 2 * (nCalls + 1) - 1
        /\ \A j \in DOMAIN messages :
            /\ messages[j].role = (IF j % 2 = 1 THEN "user" ELSE "assistant")
            /\ j % 2 = 0 => messages[j].content = responses[j \div 2].content
            /\ (j % 2 = 1 /\ j > 1) =>
                \A k \in DOMAIN messages[j].content :
                    messages[j].content[k].type = "tool_result"

\* C18: the transcript always starts with the one seeded user message, whose
\* text puts [user_id=...] and [location=...] ahead of the message text; when
\* run() is at its n-th inference call the transcript holds exactly 2n-1
\* messages with roles user, assistant, user, ..., user, the assistant
\* messages being the model's responses as received and the later user
\* messages batches of tool results; and a step only ever appends to the
\* transcript.
C18_TranscriptAlternates == [](C18_Alternates) /\ [][IsPrefix(messages, messages')]_vars

\* run() is at its third inference call with five messages in the transcript
C18_Witness ==
    /\ pc = "await"
    /\ nCalls = 2
    /\ Len(messages) = 5
    /\ messages[4].role = "assistant"
    /\ messages[5].role = "user"

\* the tool-request blocks of the transcript, oldest first
TranscriptRequests ==
    Concat([k \in 1..((Len(messages) - 1) \div 2) |-> RequestBlocks(messages[2 * k].content)])

\* C20: whenever run() is at an inference call or has returned, the log has
\* as many entries as the transcript has tool-result blocks and tool-request
\* blocks, and the j-th entry has the payload and error flag of the j-th
\* tool-result block and the tool name and input of the j-th tool-request
\* block, whose identifier that result block carries; the returned log is
\* that log.
C20_LogMatchesTranscript ==
    pc \in {"await", "done"} =>
        /\ Len(tool_calls_log) = Len(ResultBlocks)
        /\ Len(tool_calls_log) = Len(TranscriptRequests)
        /\ \A j \in DOMAIN tool_calls_log :
            /\ tool_calls_log[j].output = ResultBlocks[j].content
            /\ tool_calls_log[j].error = ResultBlocks[j].is_error
            /\ tool_calls_log[j].tool = TranscriptRequests[j].name
            /\ tool_calls_log[j].input = TranscriptRequests[j].input
            /\ ResultBlocks[j].tool_use_id = TranscriptRequests[j].id
        /\ pc = "done" => Val(result).tool_calls = tool_calls_log

\* run() returned after two batches, three calls logged, the second one failed
C20_Witness ==
    /\ pc = "done"
    /\ Len(messages) = 5
    /\ Len(tool_calls_log) = 3
    /\ tool_calls_log[1].error = FALSE
    /\ tool_calls_log[2].error = TRUE
    /\ Len(messages[3].content) = 2

\* the save_preference calls of this run that returned, as invocation numbers
CommittedSaves ==
    {j \in DOMAIN dispatched :
        dispatched[j].name = "save_preference" /\ dispatched[j].raised = "none"}

C22_SavesRemain ==
    /\ \A j \in CommittedSaves :
        LET input == tool_calls_log[j].input
        IN  /\ input.user_id \in db.users
            /\ ToSet(input.cuisines_liked)
                   \subseteq ToSet(GetPreferences(db, input.user_id).cuisines_liked)
    /\ pc = "failed" => (result = None /\ http = "500")

C22_FailureKeepsStore ==
    (pc = "await" /\ pc' = "failed") =>
        (db' = db /\ result' = None /\ tool_calls_log' = tool_calls_log)

\* C22: a failing inference call leaves the preference store as it is:
\* every save_preference that returned earlier in the run is still stored
\* when run() has raised, while the caller gets status 500 and no Run
\* Result, hence no tool-call log naming those writes.
C22_AbortKeepsSideEffects == [](C22_SavesRemain) /\ [][C22_FailureKeepsStore]_vars

\* the second inference call failed after a save_preference had committed
C22_Witness ==
    /\ pc = "failed"
    /\ nCalls = 2
    /\ CommittedSaves # {}
    /\ GetPreferences(db, "u1").cuisines_liked = <<"Thai">>
    /\ result = None
    /\ http = "500"

-----------------------------------------------------------------------------
(* Properties of the preference tools *)

ListView(d, u, f) == GetPreferences(d, u)[f]

\* the last direct save_preference call repeats the one before it
RepeatedSave(h) == Len(h) >= 2 /\ h[Len(h)] = h[Len(h) - 1]

C10_UnionNoDup ==
    \A u \in Users, f \in LIST_FIELDS :
        /\ ToSet(ListView(db, u, f)) = Supplied(u, f)
        /\ NoDup(ListView(db, u, f))

C10_IdempotentStep ==
    (saves' # saves /\ RepeatedSave(saves')) =>
        \A u \in Users, f \in LIST_FIELDS :
            /\ ToSet(ListView(db', u, f)) = ToSet(ListView(db, u, f))
            /\ Len(ListView(db', u, f)) = Len(ListView(db, u, f))

\* C10: after any sequence of save_preference calls, every list field that
\* get_preferences reads back holds, as a set, exactly the values ever passed
\* for that field of that user, each once; and a save_preference call that
\* repeats the previous one leaves every list field with the same entries
\* (the order of the entries is not fixed by list(set(...))).
C10_UnionIdempotent == [](C10_UnionNoDup) /\ [][C10_IdempotentStep]_vars

\* a list with a repeated entry was saved twice in a row and two entries are stored
C10_Witness ==
    /\ RepeatedSave(saves)
    /\ saves[1].user_id = "u1"
    /\ saves[1].cuisines_liked = Some(<<"Italian", "Thai", "Italian">>)
    /\ Len(ListView(db, "u1", "cuisines_liked")) = 2

C11_FrameStep ==
    saves' # saves =>
        LET a == Last(saves')
        IN  /\ \A f \in LIST_FIELDS :
                a[f] = None => ListView(db', a.user_id, f) = ListView(db, a.user_id, f)
            /\ GetPreferences(db', a.user_id).price_range =
                   (IF a.price_range # None THEN a.price_range
                    ELSE GetPreferences(db, a.user_id).price_range)
            /\ \A u \in Users \ {a.user_id} : GetPreferences(db', u) = GetPreferences(db, u)
            /\ \A k \in DOMAIN db.prefs :
                   db.prefs[k].user_id # a.user_id => db'.prefs[k] = db.prefs[k]
            /\ db.users \subseteq db'.users

\* the price_range read back is the one of the latest call that passed one
C11_LatestPrice ==
    \A u \in Users :
        LET given == {j \in DOMAIN saves : saves[j].user_id = u /\ saves[j].price_range # None}
        IN  GetPreferences(db, u).price_range =
                (IF given = {} THEN None
                 ELSE saves[CHOOSE j \in given : \A k \in given : k <= j].price_range)

\* C11: a save_preference call leaves every list field it is not given (None
\* or omitted) exactly as stored, sets price_range to the supplied value when
\* one is supplied and keeps it otherwise, and leaves the records of every
\* other user as they were.
C11_OnlyGivenFieldsChange == [](C11_LatestPrice) /\ [][C11_FrameStep]_vars

\* cuisines_liked=["Thai"] was saved, then only price_range="$$": both are stored
C11_Witness ==
    /\ Len(saves) = 2
    /\ saves[1] = [NoArgs("u1") EXCEPT !.cuisines_liked = Some(<<"Thai">>)]
    /\ saves[2] = [NoArgs("u1") EXCEPT !.price_range = Some("$$")]
    /\ ListView(db, "u1", "cuisines_liked") = <<"Thai">>
    /\ GetPreferences(db, "u1").price_range = Some("$$")

DefaultFields == LIST_FIELDS \cup {"price_range"}

\* C12 as claimed: the record read for a user nothing was saved for has
\* exactly the six preference fields, the lists empty and price_range null.
C12_ExactlySixFields ==
    \A u \in Users :
        (\A j \in DOMAIN saves : saves[j].user_id # u) =>
            /\ DOMAIN GetPreferences(db, u) = DefaultFields
            /\ \A f \in LIST_FIELDS : GetPreferences(db, u)[f] = <<>>
            /\ GetPreferences(db, u).price_range = None

\* C12 amended: the record read for a user nothing was saved for is, whatever
\* is stored for other users, the six preference fields at their defaults
\* (every list empty, price_range null) together with a user_id field that
\* echoes the user asked for; it serializes to the JSON text below.
C12_DefaultRecordWithUserId ==
    \A u \in Users :
        (\A j \in DOMAIN saves : saves[j].user_id # u) =>
            /\ DOMAIN GetPreferences(db, u) = DefaultFields \cup {"user_id"}
            /\ GetPreferences(db, u).user_id = u
            /\ \A f \in LIST_FIELDS : GetPreferences(db, u)[f] = <<>>
            /\ GetPreferences(db, u).price_range = None
            /\ DumpsPrefs(GetPreferences(db, u)) =
                 "{\"user_id\": \"" \o u \o "\", \"cuisines_liked\": [], "
                 \o "\"cuisines_disliked\": [], \"dietary_restrictions\": [], "
                 \o "\"price_range\": null, \"liked_place_ids\": [], "
                 \o "\"disliked_place_ids\": []}"

\* u1 has a stored record with a price_range, u2 has none and reads the defaults
C12_Witness ==
    /\ Len(db.prefs) = 1
    /\ db.prefs[1].user_id = "u1"
    /\ db.prefs[1].price_range = Some("$$")
    /\ \A j \in DOMAIN saves : saves[j].user_id = "u1"
    /\ GetPreferences(db, "u2").price_range = None

-----------------------------------------------------------------------------
(* Properties of the preference tools on concurrent threads *)

\* C13: whatever the interleaving of save_preference calls, every list
\* field read back holds exactly the union of the values passed by the calls
\* that returned: no committed call's values are missing, and no value of a
\* call that has not committed is visible.
C13_NoLostUpdate ==
    \A u \in Users, f \in LIST_FIELDS : ToSet(ListView(db, u, f)) = Supplied(u, f)

\* the store's shape: one Preference row per user at most, and a User row
\* for every user that has one
C21_OneRecordPerUser ==
    /\ \A j, k \in DOMAIN db.prefs : db.prefs[j].user_id = db.prefs[k].user_id => j = k
    /\ \A k \in DOMAIN db.prefs : db.prefs[k].user_id \in db.users

\* the latest committed call that passed a price_range for user u, 0 if none
LatestPriced(u) ==
    LET given == {j \in DOMAIN saves : saves[j].user_id = u /\ saves[j].price_range # None}
    IN  IF given = {} THEN 0 ELSE CHOOSE j \in given : \A k \in given : k <= j

\* C21: whatever the interleaving of save_preference calls, the store holds
\* at most one Preference row per user and a User row for each of them, and
\* the record get_preferences reads reflects every committed save: each list
\* field holds all the values passed by the calls that returned, and
\* price_range is the one of the latest such call that passed one.
C21_ReadsEveryCommittedSave ==
    /\ C21_OneRecordPerUser
    /\ \A u \in Users :
        /\ \A f \in LIST_FIELDS : Supplied(u, f) \subseteq ToSet(ListView(db, u, f))
        /\ LatestPriced(u) # 0 =>
               GetPreferences(db, u).price_range = saves[LatestPriced(u)].price_range

\* two first saves for the same new user ran together: one committed the
\* only row, the other failed on the users primary key
C21_FirstSavesCollide ==
    /\ Len(saves) = 1
    /\ Len(db.prefs) = 1
    /\ \E t \in Threads :
        /\ sessions[t].at = "failed"
        /\ sessions[t].exc = "IntegrityError"
        /\ sessions[t].args.user_id = saves[1].user_id


-----------------------------------------------------------------------------
(* Properties of the lazily created clients *)

\* C14: whatever the interleaving of _get_client calls, the constructor of
\* each module's client has run at most once, the handle once set is the
\* first instance made, and all callers of one module's _get_client have
\* obtained the same instance.
C14_Singleton ==
    /\ \A m \in Modules : constructed[m] <= 1
    /\ \A m \in Modules : Handle(m) # None => Handle(m) = Some(1)
    /\ \A t, o \in Threads :
        (getters[t].at = "returned" /\ getters[o].at = "returned"
            /\ getters[t].fn = getters[o].fn) => getters[t].got = getters[o].got

-----------------------------------------------------------------------------
(* Properties of search_restaurants *)

Min(a, b) == IF a < b THEN a ELSE b

\* C15: a search_restaurants call returns at most 10 records: the first
\* min(10, n) of the n places the provider answered, in the provider's
\* order, with their keys renamed; and when geocoding the location finds
\* nothing it returns the empty list and the places search is not called.
C15_AtMostTenInOrder ==
    search.geocode_calls = 1 =>
        /\ Len(search.returned) <= 10
        /\ search.geocode_result = <<>> => (search.returned = <<>> /\ search.places_calls = 0)
        /\ search.geocode_result # <<>> =>
            /\ search.places_calls = 1
            /\ Len(search.returned) = Min(Len(search.results), 10)
            /\ \A k \in DOMAIN search.returned :
                /\ search.returned[k].place_id = search.results[k].place_id
                /\ search.returned[k].name = search.results[k].name
                /\ search.returned[k].address = search.results[k].formatted_address

\* the provider answered 11 places and the first 10 were returned
C15_Witness ==
    /\ Len(search.results) = 11
    /\ Len(search.returned) = 10
    /\ search.returned[1].place_id = "ChIJtest2"
    /\ search.returned[10].place_id = "ChIJtest1"
    /\ search.results[11].place_id = "ChIJtest2"

\* geocoding found nothing: nothing was searched and nothing returned
C15_WitnessNoMatch ==
    /\ search.geocode_calls = 1
    /\ search.geocode_result = <<>>
    /\ search.places_calls = 0

-----------------------------------------------------------------------------
(* Properties of concurrent invocations *)

\* the requests invocation i has executed or is executing: those of the
\* responses it received that did not end its run
OwnRequests(i) ==
    Requests(SelectSeq(runs[i].received, LAMBDA r : ~StopCondition(r)))

\* a transcript sent by invocation i holds its seed, then its responses and
\* the batches answering them
OwnTranscript(i, transcript) ==
    /\ transcript[1] = SeedMessage(RunArgs(i).user_id, RunArgs(i).message, RunArgs(i).location)
    /\ \A j \in 2..Len(transcript) :
        IF j % 2 = 0
        THEN transcript[j] = [role |-> "assistant", content |-> runs[i].received[j \div 2].content]
        ELSE Answers(transcript[j], transcript[j - 1])

\* how many of its requests invocation i has recorded so far: all of them, less
\* those the for loop has not finished yet
LoggedUpTo(i) ==
    IF runs[i].pc = "exec"
    THEN Len(OwnRequests(i)) - (Len(runs[i].tool_uses) - runs[i].tu_index + 1)
    ELSE Len(OwnRequests(i))

\* C19: with run() invocations interleaved in any way, the log of each
\* invocation holds exactly one entry per tool call the model requested of
\* that invocation and that it has executed, in order, and so does the log it
\* returns; every transcript it sent to the provider is made of its own seed
\* message, the responses it received and the result batches answering
\* them; no tool-request identifier of another invocation occurs in it.
C19_OwnedByInvocation ==
    \A i \in Invocations :
        /\ Len(runs[i].tool_calls_log) = LoggedUpTo(i)
        /\ \A k \in DOMAIN runs[i].tool_calls_log :
            /\ runs[i].tool_calls_log[k].tool = OwnRequests(i)[k].name
            /\ runs[i].tool_calls_log[k].input = OwnRequests(i)[k].input
        /\ runs[i].pc = "done" => Val(runs[i].result).tool_calls = runs[i].tool_calls_log
        /\ \A n \in DOMAIN runs[i].sent :
            /\ Len(runs[i].sent[n]) = 2 * n - 1
            /\ OwnTranscript(i, runs[i].sent[n])
        /\ \A o \in Invocations \ {i} :
            \A j \in DOMAIN runs[i].messages :
                (j > 1 /\ j % 2 = 1) =>
                    \A k \in DOMAIN runs[i].messages[j].content :
                        \A q \in DOMAIN Requests(runs[o].received) :
                            runs[i].messages[j].content[k].tool_use_id
                                # Requests(runs[o].received)[q].id

\* both invocations ran a tool cycle, interleaved, and returned: r1 logged
\* two calls and r2 one
C19_Witness ==
    /\ runs["r1"].pc = "done"
    /\ runs["r2"].pc = "done"
    /\ Len(Val(runs["r1"].result).tool_calls) = 2
    /\ Len(Val(runs["r2"].result).tool_calls) = 1
    /\ runs["r1"].messages[3].content[1].tool_use_id = 1
    /\ runs["r2"].messages[3].content[1].tool_use_id = 3
    /\ runs["r1"].messages[3].content[2].tool_use_id = 2
    /\ Val(runs["r2"].result).tool_calls[1].tool = "save_preference"

====
